---- MODULE Spec2Model ----
(***************************************************************************)
(* A model of the ke editor (CubeFlix/ke): the line buffer                 *)
(* (buffer.Buffer, buffer.BufferLine) and the editor's cursor and viewport *)
(* (editor.Editor).                                                        *)
(*                                                                         *)
(* Go slices are modelled as they are in memory: a BufferLine's data is a  *)
(* window (arr, off, len, cap) into a backing array of the heap, so that   *)
(* the sub-slices made by a line split and the append made by a line join  *)
(* act on shared storage exactly as the code's do.                         *)
(***************************************************************************)
EXTENDS Integers, Sequences, FiniteSets, TLC

\* Scaled-down capacity limits of the editor's buffer (the program uses 1e5
\* for both).
MaxBufferSize == 2
MaxLineSize == 2

\* The row limit of a buffer made roomier than the editor's, for the callers
\* that need a third row.
RoomyBufferSize == 3

\* The screen size the terminal reports, fixed for a session: a tiny screen,
\* which every document but the smallest overflows.
ScreenWidth == 1
ScreenHeight == 1

\* The runes the callers of the buffer insert, and the rune the character
\* keys of the editor insert (the cursor and the viewport depend on the
\* lengths of the rows alone).
Chars == {"a", "b"}
KeyChars == {"a"}

\* The model accepts the insert of a rune while the document holds fewer
\* runes than this, and on a full row whatever the document holds.
MaxRunes == 2

\* The zero rune of a freshly made array.
Zero == "0"

\* A failed character insert moves cursorX right without bound; the model
\* stops accepting character keys once cursorX reaches this column.
MaxCursorX == MaxLineSize + 2

\* maxSize, lineMaxSize and data are the fields of the Buffer; heap holds the
\* backing arrays of the lines' slices; file is what the editor has written
\* to its file: nothing yet, or the runes of the last Save.
VARIABLES maxSize, lineMaxSize, data, heap, cursorX, cursorY, top, left, width,
          height, status, last, file

vars == <<maxSize, lineMaxSize, data, heap, cursorX, cursorY, top, left, width,
          height, status, last, file>>

----
\* Errors of the buffer package.
ErrNil == "nil"
ErrInvalidPos == "ErrInvalidPos"
ErrMaxSizeExceeded == "ErrMaxSizeExceeded"
ErrLineEmpty == "ErrLineEmpty"
\* A run-time panic (index or slice bounds out of range): the process dies.
Panic == "panic"
\* The error of os.OpenFile.
ErrOpen == "ErrOpen"
\* The error of a failed file.WriteString.
ErrWrite == "ErrWrite"

----
\* Sequence helpers.
Min(a, b) == IF a < b THEN a ELSE b

Zeros(n) == [i \in 1..n |-> Zero]

\* s[lo:hi] of Go, 0-based half-open, as a 1-based sequence.
Slice(s, lo, hi) == SubSeq(s, lo + 1, hi)

----
\* Memory.  make([]rune, len, cap): a new backing array at the end of the heap.
Alloc(h, cells) == Append(h, cells)

\* The runes of a line: b.data read through its window.
LineData(h, ln) == [i \in 1..ln.len |-> h[ln.arr][ln.off + i]]

\* BufferLine.Size
LineSize(ln) == ln.len

\* Buffer.Size
Size(d) == Len(d)

\* The document as rows of runes.
Contents(d, h) == [i \in 1..Len(d) |-> LineData(h, d[i])]

----
\* BufferLine.

\* NewBufferLine(maxSize): an empty line over a new array of maxSize zero
\* runes (the parameter is max here).
NewBufferLine(h, max) ==
    [line |-> [maxSize |-> max, arr |-> Len(h) + 1, off |-> 0, len |-> 0,
               cap |-> max],
     heap |-> Alloc(h, Zeros(max))]

\* Insert with the capacity check off by one: a line one rune over its
\* maximum size is accepted.
InsertOffByOne(h, ln, runes, pos) ==
    IF pos > LineSize(ln) THEN [line |-> ln, heap |-> h, err |-> ErrInvalidPos]
    ELSE IF Len(runes) + LineSize(ln) > ln.maxSize + 1
    THEN [line |-> ln, heap |-> h, err |-> ErrMaxSizeExceeded]
    ELSE IF pos < 0 THEN [line |-> ln, heap |-> h, err |-> Panic]
    ELSE LET origData == LineData(h, ln)
             cells == Slice(origData, 0, pos) \o runes
                        \o Slice(origData, pos, Len(origData))
         IN [line |-> [ln EXCEPT !.arr = Len(h) + 1, !.off = 0,
                                 !.len = Len(cells), !.cap = Len(cells)],
             heap |-> Alloc(h, cells),
             err |-> ErrNil]

\* BufferLine.Insert(data, pos): the line is rebuilt in a new array of exactly
\* the new length.  A negative pos passes both checks and panics in the
\* slice expression origData[:pos].
Insert(h, ln, runes, pos) ==
    IF pos > LineSize(ln) THEN [line |-> ln, heap |-> h, err |-> ErrInvalidPos]
    ELSE IF Len(runes) + LineSize(ln) > ln.maxSize
    THEN [line |-> ln, heap |-> h, err |-> ErrMaxSizeExceeded]
    ELSE IF pos < 0 THEN [line |-> ln, heap |-> h, err |-> Panic]
    ELSE LET origData == LineData(h, ln)
             cells == Slice(origData, 0, pos) \o runes
                        \o Slice(origData, pos, Len(origData))
         IN [line |-> [ln EXCEPT !.arr = Len(h) + 1, !.off = 0,
                                 !.len = Len(cells), !.cap = Len(cells)],
             heap |-> Alloc(h, cells),
             err |-> ErrNil]

\* Delete with the underflow check off by one: a delete that reaches the
\* first rune of the line is refused.
DeleteUnderflowOffByOne(h, ln, num, pos) ==
    IF pos > LineSize(ln) THEN [line |-> ln, heap |-> h, err |-> ErrInvalidPos]
    ELSE IF pos - num <= 0 THEN [line |-> ln, heap |-> h, err |-> ErrLineEmpty]
    ELSE IF pos < 0 \/ pos - num > LineSize(ln)
    THEN [line |-> ln, heap |-> h, err |-> Panic]
    ELSE LET origData == LineData(h, ln)
             cells == Slice(origData, 0, pos - num)
                        \o Slice(origData, pos, Len(origData))
         IN [line |-> [ln EXCEPT !.arr = Len(h) + 1, !.off = 0,
                                 !.len = Len(cells), !.cap = Len(cells)],
             heap |-> Alloc(h, cells),
             err |-> ErrNil]

\* BufferLine.Delete(num, pos): removes the runes [pos-num, pos); the line is
\* rebuilt in a new array of exactly the new length.  A negative pos that
\* passes both checks panics in origData[pos:].  A negative num passes both
\* checks: origData[:pos-num] panics if it reaches beyond the line, and
\* otherwise the runes [pos, pos-num) are in the new line twice.
Delete(h, ln, num, pos) ==
    IF pos > LineSize(ln) THEN [line |-> ln, heap |-> h, err |-> ErrInvalidPos]
    ELSE IF pos - num < 0 THEN [line |-> ln, heap |-> h, err |-> ErrLineEmpty]
    ELSE IF pos < 0 \/ pos - num > LineSize(ln)
    THEN [line |-> ln, heap |-> h, err |-> Panic]
    ELSE LET origData == LineData(h, ln)
             cells == Slice(origData, 0, pos - num)
                        \o Slice(origData, pos, Len(origData))
         IN [line |-> [ln EXCEPT !.arr = Len(h) + 1, !.off = 0,
                                 !.len = Len(cells), !.cap = Len(cells)],
             heap |-> Alloc(h, cells),
             err |-> ErrNil]

----
\* The capacity append gives a slice of runes it has to move: the runtime
\* doubles a small capacity unless the needed length is larger still, then
\* rounds the allocation up to a malloc size class (8, 16, 24, 32, 48, 64
\* bytes, ...; a rune is 4 bytes).
SizeClasses == {2, 4, 6, 8, 12, 16, 20, 24, 28, 32}

GrowCap(newLen, oldCap) ==
    LET want == IF newLen > 2 * oldCap THEN newLen ELSE 2 * oldCap
        fits == {c \in SizeClasses : c >= want}
    IN IF fits = {} THEN want
       ELSE CHOOSE c \in fits : \A e \in fits : c <= e

\* append(dst.data, src.data...): with nothing to add the slice is returned
\* as it is; within dst's capacity the runes are written into dst's backing
\* array after its last rune (a memmove: the source is read first), whatever
\* else lives there; beyond it dst moves to a new, larger array.
AppendLine(h, dst, src) ==
    LET add == LineData(h, src)
        newLen == dst.len + src.len
    IN IF src.len = 0 THEN [line |-> dst, heap |-> h]
       ELSE IF newLen <= dst.cap
       THEN [line |-> [dst EXCEPT !.len = newLen],
             heap |-> [h EXCEPT ![dst.arr] =
                         [p \in 1..Len(@) |->
                            IF p > dst.off + dst.len /\ p <= dst.off + newLen
                            THEN add[p - dst.off - dst.len]
                            ELSE @[p]]]]
       ELSE LET newCap == GrowCap(newLen, dst.cap)
            IN [line |-> [dst EXCEPT !.arr = Len(h) + 1, !.off = 0,
                                     !.len = newLen, !.cap = newCap],
                heap |-> Alloc(h, LineData(h, dst) \o add \o Zeros(newCap - newLen))]

----
\* Buffer.  d is b.data (the rows, 1-based here; row and col are the code's
\* 0-based indices), h the heap; b.maxSize and b.lineMaxSize are read from
\* the state, no operation changes them.  Each operation gives the new rows and heap,
\* the returned position and the returned error.

Ret(d, h, row, col, err) ==
    [data |-> d, heap |-> h, row |-> row, col |-> col, err |-> err]

\* SplitRow with the new row cut one rune late (splitLine[col+1:]): the rune
\* at col is in neither row.
SplitRowOffByOne(d, h, row, col) ==
    IF row < 0 \/ row + 1 > Len(d) THEN Ret(d, h, row, col, Panic)
    ELSE LET splitLine == d[row + 1]
         IN IF col < 0 \/ col > splitLine.cap \/ col > splitLine.len
            THEN Ret(d, h, row, col, Panic)
            ELSE LET upper == [splitLine EXCEPT !.len = col]
                     cut == Min(col + 1, splitLine.len)
                     lower == [maxSize |-> lineMaxSize,
                               arr |-> splitLine.arr,
                               off |-> splitLine.off + cut,
                               len |-> splitLine.len - cut,
                               cap |-> splitLine.cap - cut]
                 IN Ret(Slice(d, 0, row) \o <<upper, lower>>
                          \o Slice(d, row + 1, Len(d)),
                        h, row + 1, 0, ErrNil)

\* SplitRow with the new row made by NewBufferLine(len(splitLine[col:])): its
\* capacity is the length of what it holds, not the buffer's line limit.
SplitRowShortCap(d, h, row, col) ==
    IF row < 0 \/ row + 1 > Len(d) THEN Ret(d, h, row, col, Panic)
    ELSE LET splitLine == d[row + 1]
         IN IF col < 0 \/ col > splitLine.cap \/ col > splitLine.len
            THEN Ret(d, h, row, col, Panic)
            ELSE LET upper == [splitLine EXCEPT !.len = col]
                     lower == [maxSize |-> splitLine.len - col,
                               arr |-> splitLine.arr,
                               off |-> splitLine.off + col,
                               len |-> splitLine.len - col,
                               cap |-> splitLine.cap - col]
                 IN Ret(Slice(d, 0, row) \o <<upper, lower>>
                          \o Slice(d, row + 1, Len(d)),
                        h, row + 1, 0, ErrNil)

\* The line-break branch of InsertOne: the row's slice is cut in two
\* sub-slices of the same backing array, the upper one keeping the whole
\* capacity.  It panics on a row that does not exist (origData[:row+1]) and
\* on a column beyond the row's length (splitLine[col:]).
SplitRow(d, h, row, col) ==
    IF row < 0 \/ row + 1 > Len(d) THEN Ret(d, h, row, col, Panic)
    ELSE LET splitLine == d[row + 1]
         IN IF col < 0 \/ col > splitLine.cap \/ col > splitLine.len
            THEN Ret(d, h, row, col, Panic)
            ELSE LET upper == [splitLine EXCEPT !.len = col]
                     lower == [maxSize |-> lineMaxSize,
                               arr |-> splitLine.arr,
                               off |-> splitLine.off + col,
                               len |-> splitLine.len - col,
                               cap |-> splitLine.cap - col]
                 IN Ret(Slice(d, 0, row) \o <<upper, lower>>
                          \o Slice(d, row + 1, Len(d)),
                        h, row + 1, 0, ErrNil)

\* Buffer.InsertOne(char, row, col)
InsertOne(d, h, char, row, col) ==
    IF row > Size(d) THEN Ret(d, h, row, col, ErrInvalidPos)
    ELSE IF char = "\n"
    THEN IF Size(d) + 1 > maxSize
         THEN Ret(d, h, row, col, ErrMaxSizeExceeded)
         ELSE SplitRow(d, h, row, col)
    ELSE IF row < 0 \/ row >= Len(d) THEN Ret(d, h, row, col, Panic)
    ELSE LET r == Insert(h, d[row + 1], <<char>>, col)
         IN IF r.err = Panic THEN Ret(d, h, row, col, Panic)
            ELSE Ret([d EXCEPT ![row + 1] = r.line], r.heap, row, col + 1, r.err)

\* JoinRows returning the length of the joined row as the column.
JoinRowsJoinedLen(d, h, row) ==
    LET r == AppendLine(h, d[row], d[row + 1])
        joined == [r.line EXCEPT !.maxSize = d[row + 1].maxSize]
    IN Ret(Slice(d, 0, row - 1) \o <<joined>> \o Slice(d, row + 1, Len(d)),
           r.heap, row - 1, joined.len, ErrNil)

\* JoinRows with the operands of the append exchanged: the upper row's runes
\* follow the lower row's.
JoinRowsSwapped(d, h, row) ==
    LET r == AppendLine(h, d[row + 1], d[row])
        joined == [r.line EXCEPT !.maxSize = d[row + 1].maxSize]
    IN Ret(Slice(d, 0, row - 1) \o <<joined>> \o Slice(d, row + 1, Len(d)),
           r.heap, row - 1, d[row].len, ErrNil)

\* The join branch of DeleteOne, past its checks: the rows from `row` on move
\* up by one, so that the line that stays at row-1 is the lower line, and its
\* runes become append(upper runes, lower runes...); the upper line is
\* dropped with its fields as they were, and the returned column is its
\* length.
JoinRows(d, h, row) ==
    LET r == AppendLine(h, d[row], d[row + 1])
        joined == [r.line EXCEPT !.maxSize = d[row + 1].maxSize]
    IN Ret(Slice(d, 0, row - 1) \o <<joined>> \o Slice(d, row + 1, Len(d)),
           r.heap, row - 1, d[row].len, ErrNil)

\* DeleteOne returning the column it was given after the delete of a rune,
\* not the column before it.
DeleteOneKeepsCol(d, h, row, col) ==
    IF row > Size(d) THEN Ret(d, h, row, col, ErrInvalidPos)
    ELSE IF col = 0
    THEN IF row = 0 THEN Ret(d, h, row, col, ErrInvalidPos)
         ELSE IF row < 0 \/ row >= Len(d) THEN Ret(d, h, row, col, Panic)
         ELSE IF LineSize(d[row]) + LineSize(d[row + 1]) > lineMaxSize
         THEN Ret(d, h, row, col, ErrMaxSizeExceeded)
         ELSE JoinRows(d, h, row)
    ELSE IF row < 0 \/ row >= Len(d) THEN Ret(d, h, row, col, Panic)
    ELSE LET r == Delete(h, d[row + 1], 1, col)
         IN Ret([d EXCEPT ![row + 1] = r.line], r.heap, row, col, r.err)

\* Buffer.DeleteOne(row, col)
DeleteOne(d, h, row, col) ==
    IF row > Size(d) THEN Ret(d, h, row, col, ErrInvalidPos)
    ELSE IF col = 0
    THEN IF row = 0 THEN Ret(d, h, row, col, ErrInvalidPos)
         ELSE IF row < 0 \/ row >= Len(d) THEN Ret(d, h, row, col, Panic)
         ELSE IF LineSize(d[row]) + LineSize(d[row + 1]) > lineMaxSize
         THEN Ret(d, h, row, col, ErrMaxSizeExceeded)
         ELSE JoinRows(d, h, row)
    ELSE IF row < 0 \/ row >= Len(d) THEN Ret(d, h, row, col, Panic)
    ELSE LET r == Delete(h, d[row + 1], 1, col)
         IN Ret([d EXCEPT ![row + 1] = r.line], r.heap, row, col - 1, r.err)

----
\* Garbage collection and naming of the heap, so that two states that differ
\* only in where the allocator put the arrays are the same state.  The arrays
\* no row refers to are dropped and the others are numbered in the order the
\* rows first refer to them.  A slice of no capacity shares no cell with any
\* other, so it gets an empty array of its own.  Every slice of an array ends
\* where the array ends and none ever grows backwards, so the cells before
\* the first slice of an array are dropped.  A cell no row's window covers is
\* never read before it is written again (append writes a cell before it
\* extends a window over it), so such cells are cleared.

\* The array of row i: its backing array, or a private one (a negative
\* number) if its slice has no capacity.
Key(d, i) == IF d[i].cap = 0 THEN 0 - i ELSE d[i].arr

Refs(d) == {Key(d, i) : i \in 1..Len(d)}

FirstRef(d, a) == CHOOSE i \in 1..Len(d) : Key(d, i) = a /\ \A j \in 1..(i - 1) : Key(d, j) # a

Rank(d, a) == Cardinality({b \in Refs(d) : FirstRef(d, b) < FirstRef(d, a)}) + 1

Live(d, a, p) == \E i \in 1..Len(d) : d[i].arr = a /\ p > d[i].off /\ p <= d[i].off + d[i].len

\* The number of cells of array a before its first slice.
Base(d, a) ==
    IF a < 0 THEN 0
    ELSE LET offs == {d[i].off : i \in {k \in 1..Len(d) : Key(d, k) = a}}
         IN CHOOSE o \in offs : \A q \in offs : o <= q

Collect(d, h) ==
    [data |-> [i \in 1..Len(d) |->
                 [d[i] EXCEPT !.arr = Rank(d, Key(d, i)),
                              !.off = IF d[i].cap = 0 THEN 0
                                      ELSE @ - Base(d, d[i].arr)]],
     heap |-> [k \in 1..Cardinality(Refs(d)) |->
                 LET a == CHOOSE b \in Refs(d) : Rank(d, b) = k
                     base == Base(d, a)
                 IN IF a < 0 THEN <<>>
                    ELSE [p \in 1..(Len(h[a]) - base) |->
                            IF Live(d, a, p + base) THEN h[a][p + base] ELSE Zero]]]

----
\* Editor.Init: the rows loaded from the file.

\* The position (1-based) of the first "\n" of s, or 0.
IndexNewline(s) ==
    IF \E i \in 1..Len(s) : s[i] = "\n"
    THEN CHOOSE i \in 1..Len(s) : s[i] = "\n" /\ \A j \in 1..(i - 1) : s[j] # "\n"
    ELSE 0

\* line := NewBufferLine(MaxLineSize); line.Insert(runes, 0), the error of
\* Insert being dropped: a run that does not fit leaves the line empty.  m is
\* the editor's MaxLineSize.
LoadedLine(h, runes, m) ==
    LET n == NewBufferLine(h, m)
        r == Insert(n.heap, n.line, runes, 0)
    IN [line |-> r.line, heap |-> r.heap]

\* The read loop of Init: every string ReadString('\n') returns loses its last
\* two bytes (str[:len(str)-2] panics on a string of one byte); what is left
\* at the end of the file is the last row.
RECURSIVE ReadLines(_, _, _, _)
ReadLines(rest, d, h, m) ==
    LET i == IndexNewline(rest)
    IN IF i = 0
       THEN LET l == LoadedLine(h, rest, m)
            IN [data |-> Append(d, l.line), heap |-> l.heap, err |-> ErrNil]
       ELSE IF i < 2 THEN [data |-> d, heap |-> h, err |-> Panic]
       ELSE LET l == LoadedLine(h, Slice(rest, 0, i - 2), m)
            IN ReadLines(Slice(rest, i, Len(rest)), Append(d, l.line), l.heap, m)

\* The rows of Init for a file that does not exist: one empty line.
NoFile(m) ==
    LET n == NewBufferLine(<<>>, m)
    IN [data |-> <<n.line>>, heap |-> n.heap, err |-> ErrNil]

\* The files the model starts from: up to n rows of up to m runes of chars,
\* each followed by "\r\n" but the last, of at most MaxRunes runes in all.
RowsOver(chars, m) == UNION {[1..k -> chars] : k \in 0..m}

RECURSIVE SumLen(_)
SumLen(rows) == IF rows = <<>> THEN 0 ELSE Len(Head(rows)) + SumLen(Tail(rows))

RECURSIVE FileOf(_)
FileOf(rows) ==
    IF Len(rows) = 1 THEN rows[1]
    ELSE rows[1] \o <<"\r", "\n">> \o FileOf(Tail(rows))

FilesOver(chars, n, m) ==
    {FileOf(rows) : rows \in {r \in UNION {[1..k -> RowsOver(chars, m)] : k \in 1..n} :
                                SumLen(r) <= MaxRunes}}

\* The files of every document of up to n rows of up to m runes of chars.
DocsOver(chars, n, m) ==
    {FileOf(rows) : rows \in UNION {[1..k -> RowsOver(chars, m)] : k \in 1..n}}

----
\* RenderTop scrolling down one row late.
RenderTopLate(cy, t, hgt) ==
    IF cy > t + hgt THEN t + 1
    ELSE IF cy < t THEN t - 1
    ELSE t

\* RenderTop without the scroll up: a cursor above the window is left there.
RenderTopNoScrollUp(cy, t, hgt) ==
    IF cy >= t + hgt THEN t + 1
    ELSE t

\* Editor.Render: the viewport recompute, one step per call.
RenderTop(cy, t, hgt) ==
    IF cy >= t + hgt THEN t + 1
    ELSE IF cy < t THEN t - 1
    ELSE t

\* RenderLeft scrolling left one column early: with the cursor on the window's
\* first column.
RenderLeftEager(cx, l, w) ==
    IF cx >= l + w THEN l + 1
    ELSE IF cx <= l THEN l - 1
    ELSE l

RenderLeft(cx, l, w) ==
    IF cx >= l + w THEN l + 1
    ELSE IF cx < l THEN l - 1
    ELSE l

\* The draw loop of Render indexes row top+i and slices it at left: it panics
\* on a negative top, and on a negative left if a row is drawn.
RenderPanics(d, t, l, hgt) ==
    \E i \in 0..(hgt - 1) : t + i <= Size(d) - 1 /\ (t + i < 0 \/ l < 0)

\* The number of runes of the document.
RECURSIVE Runes(_)
Runes(d) == IF d = <<>> THEN 0 ELSE LineSize(Head(d)) + Runes(Tail(d))

----
\* The editor.  last records the key of the last command and the error the
\* buffer returned to it.
Last(key, err) == [key |-> key, err |-> err]

\* What the editor has written to its file: nothing, or the runes of a Save.
Unwritten == [written |-> FALSE, runes |-> <<>>]

Written(runes) == [written |-> TRUE, runes |-> runes]

\* NewEditor and Init in an editor built with MaxBufferSize = n and
\* MaxLineSize = m: the buffer's limits and the rows of the file, or one
\* empty row if there is no file.
Opened(files, n, m) ==
    /\ maxSize = n
    /\ lineMaxSize = m
    /\ \E f \in {NoFile(m)} \cup {ReadLines(runes, <<>>, <<>>, m) : runes \in files} :
          /\ f.err = ErrNil
          /\ data = Collect(f.data, f.heap).data
          /\ heap = Collect(f.data, f.heap).heap
    /\ file = Unwritten

\* NewEditor, Init and the first Render of HandleEvents, in an editor built
\* with MaxBufferSize = n and MaxLineSize = m: the buffer's limits, the rows
\* of the file (or one empty row), the cursor and the viewport at the origin,
\* on a screen of w by hgt cells.
Start(files, n, m, w, hgt) ==
    /\ Opened(files, n, m)
    /\ cursorX = 0
    /\ cursorY = 0
    /\ width = w
    /\ height = hgt
    /\ top = RenderTop(0, 0, hgt)
    /\ left = RenderLeft(0, 0, w)
    /\ status = "running"
    /\ last = Last("Init", ErrNil)

Init ==
    Start(FilesOver(KeyChars, MaxBufferSize, MaxLineSize),
          MaxBufferSize, MaxLineSize, ScreenWidth, ScreenHeight)

InitBuf ==
    Start(FilesOver(Chars, MaxBufferSize, MaxLineSize),
          MaxBufferSize, MaxLineSize, ScreenWidth, ScreenHeight)

InitRoomy ==
    Start(FilesOver(Chars, RoomyBufferSize, MaxLineSize),
          RoomyBufferSize, MaxLineSize, ScreenWidth, ScreenHeight)

\* The state a key's branch leaves, then Render.
Painted(d, h, cy, cx, l, event) ==
    LET c == Collect(d, h)
        t2 == RenderTop(cy, top, height)
        l2 == RenderLeft(cx, l, width)
    IN /\ last' = event
       /\ cursorY' = cy
       /\ cursorX' = cx
       /\ top' = t2
       /\ left' = l2
       /\ data' = c.data
       /\ heap' = c.heap
       /\ status' = IF RenderPanics(c.data, t2, l2, height) THEN "crashed" ELSE "running"
       /\ UNCHANGED <<maxSize, lineMaxSize, width, height>>

\* The end of handleKeyPress: the state the key's branch leaves, then the
\* deferred Render.
Rendered(d, h, cy, cx, l, event) ==
    /\ Painted(d, h, cy, cx, l, event)
    /\ UNCHANGED file

\* A panic inside the buffer: the process dies where it stands.
Crashed(event) ==
    /\ status' = "crashed"
    /\ last' = event
    /\ UNCHANGED <<maxSize, lineMaxSize, data, heap, cursorX, cursorY, top, left,
                   width, height, file>>

\* The column clamp of Down and Up on the row the cursor arrived at.
ClampX(cy, cx) == IF cx >= LineSize(data[cy + 1]) THEN LineSize(data[cy + 1]) ELSE cx

\* ClampLeft without the reveal: left stays where it was.
ClampLeftNoReveal(cy, cx, l) == l

ClampLeft(cy, cx, l) ==
    IF cx >= LineSize(data[cy + 1]) /\ LineSize(data[cy + 1]) < l
    THEN LineSize(data[cy + 1]) ELSE l

\* tcell.KeyDown
KeyDown ==
    /\ status = "running"
    /\ IF cursorY >= Size(data) - 1
       THEN Rendered(data, heap, cursorY, cursorX, left, Last("Down", ErrNil))
       ELSE Rendered(data, heap, cursorY + 1, ClampX(cursorY + 1, cursorX),
                     ClampLeft(cursorY + 1, cursorX, left),
                     Last("Down", ErrNil))

\* tcell.KeyUp
KeyUp ==
    /\ status = "running"
    /\ IF cursorY = 0
       THEN Rendered(data, heap, cursorY, cursorX, left, Last("Up", ErrNil))
       ELSE Rendered(data, heap, cursorY - 1, ClampX(cursorY - 1, cursorX),
                     ClampLeft(cursorY - 1, cursorX, left),
                     Last("Up", ErrNil))

\* WrapLeft without the reveal: left stays where it was.
WrapLeftNoReveal(cx, l, w) == l

\* The viewport's left after Left wrapped to the end of the row above.
WrapLeft(cx, l, w) == IF cx >= l + w THEN cx - w ELSE l

\* tcell.KeyLeft
KeyLeft ==
    /\ status = "running"
    /\ IF cursorX = 0
       THEN IF cursorY = 0
            THEN Rendered(data, heap, cursorY, cursorX, left,
                          Last("Left", ErrNil))
            ELSE Rendered(data, heap, cursorY - 1, LineSize(data[cursorY]),
                          WrapLeft(LineSize(data[cursorY]), left, width),
                          Last("Left", ErrNil))
       ELSE Rendered(data, heap, cursorY, cursorX - 1, left,
                     Last("Left", ErrNil))

\* KeyRight with the boundary check guarding the row increment alone: at the
\* end of the last row the cursor still goes to column 0.
KeyRightNoBoundary ==
    /\ status = "running"
    /\ IF cursorX >= LineSize(data[cursorY + 1])
       THEN IF cursorY >= Size(data) - 1
            THEN Rendered(data, heap, cursorY, 0, 0, Last("Right", ErrNil))
            ELSE Rendered(data, heap, cursorY + 1, 0, 0,
                          Last("Right", ErrNil))
       ELSE Rendered(data, heap, cursorY, cursorX + 1, left,
                     Last("Right", ErrNil))

\* tcell.KeyRight
KeyRight ==
    /\ status = "running"
    /\ IF cursorX >= LineSize(data[cursorY + 1])
       THEN IF cursorY >= Size(data) - 1
            THEN Rendered(data, heap, cursorY, cursorX, left,
                          Last("Right", ErrNil))
            ELSE Rendered(data, heap, cursorY + 1, 0, 0,
                          Last("Right", ErrNil))
       ELSE Rendered(data, heap, cursorY, cursorX + 1, left,
                     Last("Right", ErrNil))

\* A key that calls the buffer: the cursor takes the returned position
\* whether or not the call failed, and the bell rings if it failed.
Mutated(r, key) ==
    IF r.err = Panic THEN Crashed(Last(key, Panic))
    ELSE Rendered(r.data, r.heap, r.row, r.col, left, Last(key, r.err))

\* tcell.KeyEnter
KeyEnter ==
    /\ status = "running"
    /\ Mutated(InsertOne(data, heap, "\n", cursorY, cursorX), "Enter")

\* tcell.KeyBackspace
KeyBackspace ==
    /\ status = "running"
    /\ Mutated(DeleteOne(data, heap, cursorY, cursorX), "Backspace")

\* The rows on which the model accepts the insert of a rune.
Room(row) ==
    \/ Runes(data) < MaxRunes
    \/ row \in 0..(Size(data) - 1) /\ LineSize(data[row + 1]) >= lineMaxSize

\* Any other key: its rune is inserted.
KeyRune ==
    /\ status = "running"
    /\ cursorX < MaxCursorX
    /\ Room(cursorY)
    /\ \E ch \in KeyChars :
          Mutated(InsertOne(data, heap, ch, cursorY, cursorX), "Rune")

\* tcell.KeyEscape: Exit ends the screen and the event loop; nothing is
\* rendered.
KeyEscape ==
    /\ status = "running"
    /\ status' = "exited"
    /\ last' = Last("Escape", ErrNil)
    /\ UNCHANGED <<maxSize, lineMaxSize, data, heap, cursorX, cursorY, top, left,
                   width, height, file>>

Next ==
    \/ KeyDown
    \/ KeyUp
    \/ KeyLeft
    \/ KeyRight
    \/ KeyEnter
    \/ KeyBackspace
    \/ KeyRune
    \/ KeyEscape

\* The editor.
Spec == Init /\ [][Next]_vars

----
\* Ctrl-S: Save, then Render (the deferred Render is skipped).

\* The bytes Save writes for the rows from row i on when every write
\* succeeds: the runes of each row, and "\r\n" after it if i <= Size() - 1.
RECURSIVE SaveFrom(_, _, _)
SaveFrom(d, h, i) ==
    IF i > Len(d) - 1 THEN <<>>
    ELSE LineData(h, d[i + 1])
           \o (IF i <= Size(d) - 1 THEN <<"\r", "\n">> ELSE <<>>)
           \o SaveFrom(d, h, i + 1)

\* The outcome of the write loop when every write succeeds.
WritesOk(d, h) == [runes |-> SaveFrom(d, h, 0), err |-> ErrNil]

\* The outcomes of the write loop from row i on, whatever the file system
\* does.  A WriteString that fails has written less than its string.  The
\* failed write of a row ends the loop with its error; the error of the
\* write of "\r\n" is dropped and the loop goes on.
RECURSIVE Writes(_, _, _)
Writes(d, h, i) ==
    IF i > Len(d) - 1 THEN {[runes |-> <<>>, err |-> ErrNil]}
    ELSE LET row == LineData(h, d[i + 1])
             short == IF Len(row) = 0 THEN {0} ELSE 0..(Len(row) - 1)
             seps == IF i <= Size(d) - 1
                     THEN {<<>>, <<"\r">>, <<"\r", "\n">>}
                     ELSE {<<>>}
         IN {[runes |-> Slice(row, 0, k), err |-> ErrWrite] : k \in short}
              \cup {[runes |-> row \o sep \o rest.runes, err |-> rest.err] :
                       sep \in seps, rest \in Writes(d, h, i + 1)}

\* Editor.Save: the file is opened and truncated, which may fail, and the
\* rows are written, with the outcome `writes` of the write loop.
Save(d, h, opens, writes) ==
    IF opens THEN [file |-> Written(writes.runes), err |-> writes.err]
    ELSE [file |-> file, err |-> ErrOpen]

\* tcell.KeyCtrlS, given what the file system does.
KeyCtrlSWith(opens, writes) ==
    /\ status = "running"
    /\ LET r == Save(data, heap, opens, writes)
       IN /\ file' = r.file
          /\ Painted(data, heap, cursorY, cursorX, left, Last("Save", r.err))

\* tcell.KeyCtrlS
KeyCtrlS ==
    \E opens \in BOOLEAN : \E writes \in Writes(data, heap, 0) :
       KeyCtrlSWith(opens, writes)

NextSave ==
    \/ KeyDown
    \/ KeyUp
    \/ KeyLeft
    \/ KeyRight
    \/ KeyEnter
    \/ KeyBackspace
    \/ KeyRune
    \/ KeyEscape
    \/ KeyCtrlS

\* The editor with its Save key.
SpecSave == Init /\ [][NextSave]_vars

----
\* Render called again and again on a screen that keeps its size (a resize
\* event that reports the size the screen has), from any cursor on the
\* document and any viewport origin.

\* tcell.EventResize: the size is stored and Render is called.
Resized(w, hgt) ==
    LET t2 == RenderTop(cursorY, top, hgt)
        l2 == RenderLeft(cursorX, left, w)
    IN /\ width' = w
       /\ height' = hgt
       /\ top' = t2
       /\ left' = l2
       /\ status' = IF RenderPanics(data, t2, l2, hgt) THEN "crashed" ELSE "running"
       /\ last' = Last("Resize", ErrNil)
       /\ UNCHANGED <<maxSize, lineMaxSize, data, heap, cursorX, cursorY, file>>

RenderAgain ==
    /\ status = "running"
    /\ Resized(width, height)

InitRender ==
    /\ Opened(FilesOver(KeyChars, MaxBufferSize, MaxLineSize), MaxBufferSize,
              MaxLineSize)
    /\ cursorY \in 0..(Size(data) - 1)
    /\ cursorX \in 0..LineSize(data[cursorY + 1])
    /\ width = ScreenWidth
    /\ height = ScreenHeight
    /\ top \in 0..maxSize
    /\ left \in 0..MaxCursorX
    /\ status = "running"
    /\ last = Last("Init", ErrNil)

NextRender == RenderAgain

\* Render is called again as long as the events keep coming.
SpecRender == InitRender /\ [][NextRender]_vars /\ WF_vars(RenderAgain)

----
\* The buffer under a caller of its own: InsertOne and DeleteOne called at
\* any position of the document (a row of it, and a column on or right after
\* one of the row's runes).  The editor's cursor and viewport stay where Init
\* put them.
Called(r, key) ==
    /\ last' = Last(key, r.err)
    /\ status' = IF r.err = Panic THEN "crashed" ELSE "running"
    /\ LET c == Collect(r.data, r.heap)
       IN data' = c.data /\ heap' = c.heap
    /\ UNCHANGED <<maxSize, lineMaxSize, cursorX, cursorY, top, left, width,
                   height, file>>

CallRows == 0..(Size(data) - 1)

CallCols(row) == 0..LineSize(data[row + 1])

CallInsertOne(char, row, col) ==
    /\ status = "running"
    /\ char # "\n" => Room(row)
    /\ Called(InsertOne(data, heap, char, row, col), "InsertOne")

CallDeleteOne(row, col) ==
    /\ status = "running"
    /\ Called(DeleteOne(data, heap, row, col), "DeleteOne")

NextBuf ==
    \/ \E char \in Chars \cup {"\n"} : \E row \in CallRows : \E col \in CallCols(row) :
          CallInsertOne(char, row, col)
    \/ \E row \in CallRows : \E col \in CallCols(row) : CallDeleteOne(row, col)

SpecBuf == InitBuf /\ [][NextBuf]_vars

\* The same callers on every document of up to MaxBufferSize rows, in a
\* buffer of RoomyBufferSize rows.
InitDocs ==
    Start(DocsOver(Chars, MaxBufferSize, MaxLineSize),
          RoomyBufferSize, MaxLineSize, ScreenWidth, ScreenHeight)

SpecDocs == InitDocs /\ [][NextBuf]_vars

\* The same callers on a buffer of RoomyBufferSize rows.
SpecRoomy == InitRoomy /\ [][NextBuf]_vars

----
\* The buffer under a caller that does not keep to the document: InsertOne and
\* DeleteOne called at any row from one before the first to one beyond the
\* row after the last, and at any column up to one beyond the row's runes.
OutRows == (0 - 1)..(Size(data) + 1)

OutCols(row) ==
    0..((IF row \in 0..(Size(data) - 1) THEN LineSize(data[row + 1]) ELSE 0) + 1)

NextOut ==
    \/ \E char \in Chars \cup {"\n"} : \E row \in OutRows : \E col \in OutCols(row) :
          CallInsertOne(char, row, col)
    \/ \E row \in OutRows : \E col \in OutCols(row) : CallDeleteOne(row, col)

SpecOut == InitBuf /\ [][NextOut]_vars

----
\* One BufferLine under a caller of its own: Insert and Delete called on the
\* only row of a document of one row, with any run of runes that fits a line,
\* any count and any offset from one before the line to one beyond the
\* longest line.  last records the offset of the call as well.  A Delete of
\* a negative count makes the line longer: the model accepts it on a line
\* within its capacity alone.
LastAt(key, err, pos) == [key |-> key, err |-> err, pos |-> pos]

CalledLine(r, key, pos) ==
    /\ last' = LastAt(key, r.err, pos)
    /\ status' = IF r.err = Panic THEN "crashed" ELSE "running"
    /\ LET c == Collect(<<r.line>>, r.heap)
       IN data' = c.data /\ heap' = c.heap
    /\ UNCHANGED <<maxSize, lineMaxSize, cursorX, cursorY, top, left, width,
                   height, file>>

CallRuns == RowsOver(Chars, lineMaxSize)

CallOffsets == (0 - 1)..(lineMaxSize + 1)

CallInsert(runes, pos) ==
    /\ status = "running"
    /\ CalledLine(Insert(heap, data[1], runes, pos), "Insert", pos)

CallDelete(num, pos) ==
    /\ status = "running"
    /\ num < 0 => LineSize(data[1]) <= lineMaxSize
    /\ CalledLine(Delete(heap, data[1], num, pos), "Delete", pos)

InitLine ==
    Start(FilesOver(Chars, 1, MaxLineSize), 1, MaxLineSize, ScreenWidth,
          ScreenHeight)

NextLine ==
    \/ \E runes \in CallRuns : \E pos \in CallOffsets : CallInsert(runes, pos)
    \/ \E num \in CallOffsets : \E pos \in CallOffsets : CallDelete(num, pos)

SpecLine == InitLine /\ [][NextLine]_vars

----
\* Properties of the editor (Spec).

\* The rows of the document, as the user sees them.
Doc == Contents(data, heap)

CursorValid ==
    /\ 0 <= cursorY /\ cursorY < Size(data)
    /\ 0 <= cursorX /\ cursorX <= LineSize(data[cursorY + 1])

\* C1: after every key command the cursor is on a row of the document and
\* on or right after one of its runes: 0 <= cursorY < rowCount and
\* 0 <= cursorX <= length(row cursorY).
C1_CursorAlwaysValid == CursorValid

\* C5: a mutation key whose buffer call fails (a rune on a full line, Enter at
\* maxLines, Backspace at (0,0), a join that would be too long) leaves the
\* cursor and the document as they were before the key.
C5_FailedMutationKeepsCursor ==
    [][(/\ last'.key \in {"Rune", "Enter", "Backspace"}
        /\ last'.err \in {ErrInvalidPos, ErrMaxSizeExceeded, ErrLineEmpty})
       => /\ cursorY' = cursorY
          /\ cursorX' = cursorX
          /\ Doc' = Doc]_vars

\* The navigation keys at their boundaries.
AtBoundary(key) ==
    \/ key = "Up" /\ cursorY = 0
    \/ key = "Down" /\ cursorY = Size(data) - 1
    \/ key = "Left" /\ cursorY = 0 /\ cursorX = 0
    \/ key = "Right" /\ cursorY = Size(data) - 1
                     /\ cursorX = LineSize(data[cursorY + 1])

\* C6: Up on row 0, Down on the last row, Left at (0,0) and Right at the end
\* of the last row leave the cursor and every row's runes as they were.
C6_BoundaryNoOp ==
    [][AtBoundary(last'.key)
       => /\ cursorY' = cursorY
          /\ cursorX' = cursorX
          /\ Doc' = Doc]_vars

\* C6 witness: the bell of a navigation key has just rung at the end of the
\* last row of a document of several rows.
C6_Witness ==
    /\ last.key \in {"Right", "Down"}
    /\ Size(data) >= 2
    /\ cursorY = Size(data) - 1
    /\ cursorX = LineSize(data[cursorY + 1])
    /\ cursorX >= 1

\* C7: after every key command and its Render the cursor is on the screen:
\* 0 <= cursorX - left < width and 0 <= cursorY - top < height.
C7_CursorOnScreen ==
    /\ 0 <= cursorX - left /\ cursorX - left < width
    /\ 0 <= cursorY - top /\ cursorY - top < height

\* C10: the document always has a row, and every row's capacity (maxSize) is
\* the buffer's maximum line size, the rows made by a split included.
C10_NeverEmpty ==
    /\ Size(data) >= 1
    /\ \A i \in 1..Size(data) : data[i].maxSize = lineMaxSize

\* C10 witness: Enter has just split a row.
C10_Witness ==
    /\ last.key = "Enter"
    /\ last.err = ErrNil
    /\ Size(data) >= 2

----
\* Properties of the buffer under its callers (SpecBuf, SpecRoomy).

\* A position of the document: a row of it and a column on or right after
\* one of the row's runes.
ValidPos(row, col) ==
    /\ 0 <= row /\ row < Size(data)
    /\ 0 <= col /\ col <= LineSize(data[row + 1])

\* Rows [from, Len(new)) of new are rows [from - shift, ...) of old.
SameRows(old, new, lo, hi, shift) ==
    \A i \in lo..hi : i + shift \in 1..Len(new) /\ new[i + shift] = old[i]

\* C2: every line owns its runes.  A successful join DeleteOne(row, 0)
\* changes rows row-1 and row alone: the rows above keep their place and
\* runes, the rows below move up by one with their runes unchanged.  A split
\* changes the split row alone (the rows below move down by one), and the
\* insert or delete of a rune changes its own row alone.
C2_LinesOwnTheirRunes ==
    [][\A row \in CallRows : \A col \in CallCols(row) :
         ValidPos(row, col) =>
           /\ (last'.err = ErrNil /\ col = 0 /\ CallDeleteOne(row, col))
                => /\ SameRows(Doc, Doc', 1, row - 1, 0)
                   /\ SameRows(Doc, Doc', row + 2, Len(Doc), -1)
           /\ (last'.err = ErrNil /\ col > 0 /\ CallDeleteOne(row, col))
                => /\ SameRows(Doc, Doc', 1, row, 0)
                   /\ SameRows(Doc, Doc', row + 2, Len(Doc), 0)
           /\ (last'.err = ErrNil /\ CallInsertOne("\n", row, col))
                => /\ SameRows(Doc, Doc', 1, row, 0)
                   /\ SameRows(Doc, Doc', row + 2, Len(Doc), 1)
           /\ \A char \in Chars :
                (last'.err = ErrNil /\ CallInsertOne(char, row, col))
                  => /\ SameRows(Doc, Doc', 1, row, 0)
                     /\ SameRows(Doc, Doc', row + 2, Len(Doc), 0)]_vars

\* The document is within its capacity.
WithinCapacity(d) ==
    /\ Size(d) <= maxSize
    /\ \A i \in 1..Size(d) : LineSize(d[i]) <= lineMaxSize

\* C3: from a document within its capacity, every InsertOne and DeleteOne
\* at a position of the document leaves it within its capacity (at most
\* maxLines rows, each of at most maxLineLength runes), and an insert that
\* would exceed either returns ErrMaxSizeExceeded and leaves the rows as
\* they were (a step either ends so, or is no such insert).
C3_CapacityNeverExceeded ==
    [][WithinCapacity(data) =>
         /\ WithinCapacity(data')
         /\ \/ last'.err = ErrMaxSizeExceeded /\ Doc' = Doc
            \/ last'.key # "InsertOne"
            \/ \A row \in CallRows : \A col \in CallCols(row) :
                 ValidPos(row, col) =>
                   /\ ~(/\ Size(data) + 1 > maxSize
                        /\ CallInsertOne("\n", row, col))
                   /\ \A char \in Chars :
                        ~(/\ LineSize(data[row + 1]) + 1 > lineMaxSize
                          /\ CallInsertOne(char, row, col))]_vars

\* C3 witness: an insert has just been refused for want of room, in a
\* document with a full row.
C3_Witness ==
    /\ last.key = "InsertOne"
    /\ last.err = ErrMaxSizeExceeded
    /\ \E i \in 1..Size(data) : LineSize(data[i]) = lineMaxSize

\* C4: a split at a position (row, col) of a document below maxLines returns
\* (row+1, 0), and the join DeleteOne(row+1, 0) applied to the document the
\* split left succeeds, returns (row, col) and gives back the rows as they
\* were before the split.
C4_SplitJoinInverse ==
    [][\A row \in CallRows : \A col \in CallCols(row) :
         (/\ ValidPos(row, col)
          /\ Size(data) < maxSize
          /\ CallInsertOne("\n", row, col))
           => LET s == InsertOne(data, heap, "\n", row, col)
                  j == DeleteOne(data', heap', s.row, s.col)
              IN /\ last'.err = ErrNil /\ s.row = row + 1 /\ s.col = 0
                 /\ j.err = ErrNil /\ j.row = row /\ j.col = col
                 /\ Contents(j.data, j.heap) = Doc]_vars

\* C4 witness: a split has just cut a row of two runes before its first rune
\* (the empty upper row and the lower row are windows of one array).
C4_Witness ==
    /\ last.key = "InsertOne"
    /\ last.err = ErrNil
    /\ Size(data) = 2
    /\ data[1].arr = data[2].arr
    /\ data[1].len = 0 /\ data[2].len = 2
    /\ Doc[2] = <<"a", "b">>

\* C8: a split at a position (row, col) of a document below maxLines gives
\* one more row; row `row` keeps the runes [0, col), the new row row+1 holds
\* the runes [col, length), the rows above are unchanged and the rows below
\* move down by one; it returns (row+1, 0).
C8_SplitResult ==
    [][\A row \in CallRows : \A col \in CallCols(row) :
         (/\ ValidPos(row, col)
          /\ Size(data) < maxSize
          /\ CallInsertOne("\n", row, col))
           => LET r == InsertOne(data, heap, "\n", row, col)
              IN /\ last'.err = ErrNil
                 /\ r.row = row + 1 /\ r.col = 0
                 /\ Doc' = Slice(Doc, 0, row)
                             \o << Slice(Doc[row + 1], 0, col),
                                   Slice(Doc[row + 1], col, Len(Doc[row + 1])) >>
                             \o Slice(Doc, row + 1, Len(Doc))]_vars

\* C8 witness: a split has just cut the first row of a document of two rows
\* between its two runes (rows 0 and 1 are the two halves of one array), and
\* the row below, of two runes, is now row 2.
C8_Witness ==
    /\ last.key = "InsertOne"
    /\ last.err = ErrNil
    /\ Size(data) = 3
    /\ data[1].arr = data[2].arr
    /\ data[1].len = 1 /\ data[2].len = 1
    /\ data[2].off = data[1].off + 1
    /\ Doc[1] # Doc[2]
    /\ Doc[3] = <<"b", "a">>

\* C9: a join DeleteOne(row, 0) with row >= 1 and the two rows together
\* within maxLineLength gives one row fewer, row row-1 being the old row
\* row-1 followed by the old row `row`, and returns (row-1, L), L the length
\* of row row-1 before the call.  With row = 0 it fails with ErrInvalidPos,
\* with the two rows too long together with ErrMaxSizeExceeded; both leave
\* the rows as they were and return (row, 0).
C9_JoinResult ==
    [][\A row \in CallRows :
         (ValidPos(row, 0) /\ CallDeleteOne(row, 0))
           => LET r == DeleteOne(data, heap, row, 0)
              IN IF row = 0
                 THEN r.err = ErrInvalidPos /\ r.row = row /\ r.col = 0 /\ Doc' = Doc
                 ELSE IF Len(Doc[row]) + Len(Doc[row + 1]) > lineMaxSize
                 THEN r.err = ErrMaxSizeExceeded /\ r.row = row /\ r.col = 0
                      /\ Doc' = Doc
                 ELSE /\ r.err = ErrNil
                      /\ Len(Doc') = Len(Doc) - 1
                      /\ Doc'[row] = Doc[row] \o Doc[row + 1]
                      /\ r.row = row - 1
                      /\ r.col = Len(Doc[row])]_vars

\* C9 witness: a join has just been refused, the two rows being longer
\* together than a line may be (DeleteOne gives ErrMaxSizeExceeded for no
\* other call).
C9_Witness ==
    /\ last.key = "DeleteOne"
    /\ last.err = ErrMaxSizeExceeded
    /\ Size(data) = 2
    /\ Doc[1] = <<"a", "b">>
    /\ Len(Doc[2]) >= 1

----
\* Properties of one line under its callers (SpecLine).

\* The runes of the line.
Row == Doc[1]

\* C11: Insert(chars, at) on a line fails with ErrInvalidPos when at < 0 or
\* at > length, fails with ErrMaxSizeExceeded when at is in range and
\* length + len(chars) > capacity, leaving the line's runes unchanged in both
\* cases; otherwise it succeeds and the line is old[0,at), chars,
\* old[at,length).
C11_InsertContract ==
    [][\A runes \in CallRuns : \A pos \in CallOffsets :
         CallInsert(runes, pos)
           => IF pos < 0 \/ pos > Len(Row)
              THEN last'.err = ErrInvalidPos /\ Row' = Row
              ELSE IF Len(Row) + Len(runes) > data[1].maxSize
              THEN last'.err = ErrMaxSizeExceeded /\ Row' = Row
              ELSE /\ last'.err = ErrNil
                   /\ Row' = Slice(Row, 0, pos) \o runes
                               \o Slice(Row, pos, Len(Row))]_vars

\* C12 as claimed: Delete(count, at) with at - count < 0 fails with
\* ErrLineEmpty on any line, whatever its length, leaving its runes
\* unchanged; with 0 <= count <= at <= length it succeeds and the line is
\* old[0,at-count), old[at,length).
C12_DeleteUnderflowAnyLine ==
    [][\A num \in CallOffsets : \A pos \in CallOffsets :
         CallDelete(num, pos)
           => /\ pos - num < 0 => last'.err = ErrLineEmpty /\ Row' = Row
              /\ (0 <= num /\ num <= pos /\ pos <= Len(Row))
                   => /\ last'.err = ErrNil
                      /\ Row' = Slice(Row, 0, pos - num)
                                  \o Slice(Row, pos, Len(Row))]_vars

\* C12 as amended: Delete(count, at) with at beyond the length of the line
\* fails with ErrInvalidPos; with at <= length and at - count < 0 it fails
\* with ErrLineEmpty; both leave the runes unchanged; with
\* 0 <= count <= at <= length it succeeds and the line is old[0,at-count),
\* old[at,length).
C12_DeleteUnderflow ==
    [][\A num \in CallOffsets : \A pos \in CallOffsets :
         CallDelete(num, pos)
           => /\ pos > Len(Row) => last'.err = ErrInvalidPos /\ Row' = Row
              /\ (pos <= Len(Row) /\ pos - num < 0)
                   => last'.err = ErrLineEmpty /\ Row' = Row
              /\ (0 <= num /\ num <= pos /\ pos <= Len(Row))
                   => /\ last'.err = ErrNil
                      /\ Row' = Slice(Row, 0, pos - num)
                                  \o Slice(Row, pos, Len(Row))]_vars

\* C12 witness: a Delete at offset 1 of a line that has a rune there has
\* just been refused for reaching before the start of the line.
C12_Witness ==
    /\ last.key = "Delete"
    /\ last.err = ErrLineEmpty
    /\ last.pos = 1
    /\ Len(Row) >= 1

----
\* Properties of the buffer under any caller (SpecOut).

\* The call was refused as an invalid position and changed nothing.
Refused ==
    /\ last'.err = ErrInvalidPos
    /\ status' = "running"
    /\ Doc' = Doc

\* C13: InsertOne (of a rune or of a line break) and DeleteOne called with a
\* row outside 0..rowCount-1 or with a column beyond the row's length return
\* ErrInvalidPos, do not crash, and leave the rows and their runes as they
\* were.
C13_OutOfBoundsReported ==
    [][\A row \in OutRows : \A col \in OutCols(row) :
         ~ValidPos(row, col) =>
           /\ \A char \in Chars \cup {"\n"} :
                CallInsertOne(char, row, col) => Refused
           /\ CallDeleteOne(row, col) => Refused]_vars

----
\* More properties of the editor (Spec).

\* The step is Left pressed at column 0 of a row below the first.
LeftWraps == last'.key = "Left" /\ cursorX = 0 /\ cursorY > 0

\* The length of the row above the cursor's.
AboveSize == LineSize(data[cursorY])

\* C14 as claimed: Left at column 0 of a row below the first moves the
\* cursor to the end of the row above, and if that column is at or beyond
\* left + width the key's branch itself, before the Render that follows,
\* sets left so that left <= cursorX < left + width; if the column was inside
\* the window the branch leaves left unchanged.
C14_LeftWrapRevealsBeforeRender ==
    [][LeftWraps =>
         LET l2 == WrapLeft(AboveSize, left, width)
         IN /\ cursorY' = cursorY - 1
            /\ cursorX' = AboveSize
            /\ left' = RenderLeft(AboveSize, l2, width)
            /\ AboveSize >= left + width
                 => l2 <= AboveSize /\ AboveSize < l2 + width
            /\ (left <= AboveSize /\ AboveSize < left + width)
                 => l2 = left]_vars

\* C14 as amended: Left at column 0 of a row below the first moves the
\* cursor to the end of the row above; if that column is at or beyond
\* left + width the key's branch sets left to cursorX - width, one column
\* short of showing the cursor, and the Render that ends the command moves it
\* to cursorX - width + 1, so that left <= cursorX < left + width holds after
\* the command; if the column was inside the window left is unchanged.
C14_LeftWrapReveals ==
    [][LeftWraps =>
         LET l2 == WrapLeft(AboveSize, left, width)
         IN /\ cursorY' = cursorY - 1
            /\ cursorX' = AboveSize
            /\ left' = RenderLeft(AboveSize, l2, width)
            /\ AboveSize >= left + width
                 => /\ l2 = AboveSize - width
                    /\ left' = AboveSize - width + 1
                    /\ left' <= cursorX' /\ cursorX' < left' + width
            /\ (left <= AboveSize /\ AboveSize < left + width)
                 => l2 = left /\ left' = left]_vars

\* C14 witness: Left has just brought the cursor to the end of a row that
\* has a row below it, a rune and room for more (the cursor is beyond the
\* runes of full rows alone, so it came from the row below), and left is
\* where the reveal and the Render put it.
C14_Witness ==
    /\ last.key = "Left"
    /\ cursorY < Size(data) - 1
    /\ cursorX = LineSize(data[cursorY + 1])
    /\ cursorX >= 1
    /\ cursorX < lineMaxSize
    /\ left = cursorX - width + 1
    /\ left >= 1

\* The state the claim gives a Down or Up that goes to row ny, then the
\* Render that ends the command: cursorX is min(cursorX, length(row ny)),
\* left is min(left, new cursorX) if the column was clamped and unchanged
\* otherwise, top and the rows are unchanged.
MovedTo(ny) ==
    LET n == LineSize(data[ny + 1])
        nx == Min(cursorX, n)
        l2 == IF cursorX >= n THEN Min(left, nx) ELSE left
    IN /\ cursorY' = ny
       /\ cursorX' = nx
       /\ left' = RenderLeft(nx, l2, width)
       /\ top' = RenderTop(ny, top, height)
       /\ Doc' = Doc

\* C15: Down above the last row (Up below the first) changes cursorY by
\* exactly one; the new cursorX is min(old cursorX, length(new row)); left
\* becomes min(old left, new cursorX) if the column was clamped and is
\* unchanged otherwise; top and the document are unchanged by the key's
\* branch (the Render that ends the command follows).
C15_VerticalClamp ==
    [][/\ (last'.key = "Down" /\ cursorY < Size(data) - 1)
            => MovedTo(cursorY + 1)
       /\ (last'.key = "Up" /\ cursorY > 0)
            => MovedTo(cursorY - 1)]_vars

\* C15 witness: Down has just brought the cursor to the end of an empty row
\* below a row of at least two runes, with left pulled back to column 0.
C15_Witness ==
    /\ last.key = "Down"
    /\ cursorY >= 1
    /\ LineSize(data[cursorY]) >= 2
    /\ LineSize(data[cursorY + 1]) = 0
    /\ cursorX = 0
    /\ left = 0

----
\* Properties of Render called again and again (SpecRender).

\* The cursor is in the window.
Visible ==
    /\ top <= cursorY /\ cursorY < top + height
    /\ left <= cursorX /\ cursorX < left + width

\* C16: with the cursor and the screen size fixed, from any top >= 0 and
\* left >= 0, every Render changes top by at most one and left by at most
\* one, the cursor is eventually in the window, and once it is every Render
\* leaves top and left unchanged.
C16_ViewportConverges ==
    /\ [][/\ top' - top \in (0 - 1)..1
          /\ left' - left \in (0 - 1)..1
          /\ Visible => top' = top /\ left' = left]_vars
    /\ <>Visible

\* C16 witness: Render has brought a window that was above and left of the
\* cursor down and right to it.
C16_Witness ==
    /\ last.key = "Resize"
    /\ Visible
    /\ top >= 1 /\ top = cursorY - height + 1
    /\ left >= 1 /\ left = cursorX - width + 1

----
\* Properties of the editor with its Save key (SpecSave).

\* C17: a Save whose writes succeed writes the rows' runes in row order
\* joined by "\r\n", a separator after every row but the last and none
\* after the last; Save changes neither the document nor the cursor.
C17_SaveSerialization ==
    [][/\ KeyCtrlSWith(TRUE, WritesOk(data, heap))
          => file' = Written(FileOf(Doc))
       /\ last'.key = "Save"
          => /\ Doc' = Doc
             /\ cursorX' = cursorX
             /\ cursorY' = cursorY]_vars

----
\* Properties of the viewport under the key commands (Spec).

\* C18: with a fixed height, from top = 0 and cursorY = 0, after every key
\* command and its Render the cursor's row is in the window:
\* top <= cursorY < top + height.
C18_RowVisible ==
    /\ top <= cursorY
    /\ cursorY < top + height

\* C18 witness: Down has scrolled the window off the first row to follow the
\* cursor to the last row.
C18_Witness ==
    /\ last.key = "Down"
    /\ top >= 1
    /\ cursorY = top + height - 1
    /\ cursorY = Size(data) - 1

\* C19: top and left are never negative, so the draw loop of Render never
\* reads a row at a negative index and never slices a row at a negative
\* offset; a row reached with left at or beyond its length is skipped, so
\* the offset of a slice is within the row.
C19_OriginNonNegative ==
    /\ top >= 0
    /\ left >= 0
    /\ ~RenderPanics(data, top, left, height)
    /\ \A i \in 0..(height - 1) :
          (top + i <= Size(data) - 1 /\ left < LineSize(data[top + i + 1]))
            => top + i >= 0 /\ left \in 0..LineSize(data[top + i + 1])

\* C19 witness: Enter at the end of a row seen through a scrolled window has
\* put the cursor on column 0 of the new row, Render has moved left down by
\* one column, and the new row, shorter than left, is skipped by the draw.
C19_Witness ==
    /\ last.key = "Enter"
    /\ last.err = ErrNil
    /\ status = "running"
    /\ cursorX = 0
    /\ left >= 1
    /\ top = cursorY
    /\ left >= LineSize(data[cursorY + 1])

----
\* The insert of a rune and its undo, under the callers of the buffer
\* (SpecBuf).

\* C20: at a valid position (row, col) of a row shorter than the maximum
\* line size, InsertOne of a rune other than the line break succeeds, returns
\* (row, col+1) and puts the rune at offset col of the row; DeleteOne(row,
\* col+1) applied next succeeds, returns (row, col) and gives every row of
\* the document the runes it had before the insert.
C20_InsertDeleteInverse ==
    [][\A ch \in Chars : \A row \in CallRows : \A col \in CallCols(row) :
         (/\ ValidPos(row, col)
          /\ LineSize(data[row + 1]) < lineMaxSize
          /\ CallInsertOne(ch, row, col))
           => LET s == InsertOne(data, heap, ch, row, col)
                  j == DeleteOne(data', heap', s.row, s.col)
              IN /\ last'.err = ErrNil /\ s.row = row /\ s.col = col + 1
                 /\ Len(Doc') = Len(Doc)
                 /\ Doc'[row + 1] = Slice(Doc[row + 1], 0, col) \o <<ch>>
                                      \o Slice(Doc[row + 1], col, Len(Doc[row + 1]))
                 /\ j.err = ErrNil /\ j.row = row /\ j.col = col
                 /\ Contents(j.data, j.heap) = Doc]_vars

\* C20 witness: a rune has just been inserted in a row that held a rune (the
\* document has one row, so the insert was not a split).
C20_Witness ==
    /\ last.key = "InsertOne"
    /\ last.err = ErrNil
    /\ Size(data) = 1
    /\ Doc[1] = <<"b", "a">>

====
